---- MODULE Spec2Model ----
(***************************************************************************)
(* A state-machine model of src/fitbit_tracker.py: the FitbitNotionTracker *)
(* class (credential loading, token refresh with retry, the metrics        *)
(* client with its single refresh-and-retry, the existence filter) and     *)
(* main().  Every HTTP exchange is one step whose response is drawn from   *)
(* the set of answers the endpoint can give.                               *)
(*                                                                         *)
(* Modelled response domain: the token endpoint answers 200 with a JSON    *)
(* body holding an access token (and optionally a refresh token), or an    *)
(* error status (4xx/5xx) with a JSON body (with or without a non-empty    *)
(* 'errors' list), or the POST raises a requests RequestException.         *)
(***************************************************************************)
EXTENDS Integers, Sequences, FiniteSets, TLC

(* ------------------------------ bounds -------------------------------- *)
\* Largest retry_count the refresh harness passes to refresh_fitbit_token.
MaxRetryCount == 4

\* Longest list of dates the filter harness passes (besides the window), and
\* the number of distinct dates in such a list.
MaxFilterLen == 3
\* Largest number of rows in a query answer of the filter harness.
MaxResults == 2
\* Number of runs of main() a behaviour holds, one after the other.
MaxRuns == 2
\* Largest number of dates that hold a row before the first run.
MaxExistingRows == 1
\* Largest number of keys of a partial category dict passed to
\* post_to_notion (the complete dict of a fetcher is passed too).
MaxMetrics == 1

(* ------------------------- program constants -------------------------- *)
\* refresh_fitbit_token(self, retry_count=3, ...)
DefaultRetryCount == 3
\* for i in range(7): the trailing window, today included.
WindowDays == 7

(* ------------------------------ values -------------------------------- *)
\* Python None / a key that a JSON body or os.environ does not hold.
None == "None"

\* Access tokens the token endpoint may hand out.
AccessTokens == {"at1", "at2"}
\* The access token of a tracker whose construction has not assigned one.
NoAccessToken == "unassigned"
\* Refresh tokens: the one configured in the environment and rotated ones.
RefreshTokens == {"rt0", "rt1"}

\* The five variables __init__ reads, in the order it reads them.
CredentialNames ==
    <<"FITBIT_CLIENT_ID", "FITBIT_CLIENT_SECRET", "FITBIT_REFRESH_TOKEN",
      "NOTION_TOKEN", "NOTION_DATABASE_ID">>
\* A variable that os.environ does not hold.
Unset == "<unset>"
\* Values a credential variable may hold: empty, whitespace only, a
\* refresh token that fails the base64 check ("a": one data character),
\* and well-formed values.
CredentialValues ==
    [FITBIT_CLIENT_ID |-> {Unset, "", " ", "id"},
     FITBIT_CLIENT_SECRET |-> {Unset, "", " ", "secret"},
     FITBIT_REFRESH_TOKEN |-> {Unset, "", " ", "a", "rt0"},
     NOTION_TOKEN |-> {Unset, "", "ntn"},
     NOTION_DATABASE_ID |-> {Unset, "", "db"}]

\* errorType of errors[0] in an error body; "" is .get('errorType', '')
\* on an entry without the key, None is a body without 'errors'.
ErrorTypes == {"invalid_grant", "invalid_client", "expired_token", "", None}
PermanentErrorTypes == {"invalid_grant", "invalid_client"}

\* Statuses of an error answer; NetworkError is the status of an exchange
\* in which requests.post / requests.get raised a RequestException instead
\* of returning a response.
ErrorStatuses == {400, 500}
NetworkError == 0

\* Calendar dates, as day numbers: strftime("%Y-%m-%d") maps distinct days
\* to distinct strings, and the code only compares the strings for equality.
\* The runs of a behaviour take place on day WindowDays, so that the window
\* of each is 1..WindowDays.
Dates == 1..WindowDays

\* JSON bodies of a 200 answer of the metrics endpoints: one holding the
\* category's summary / log entries, and an empty object.
Payloads == {"full", "empty"}

\* The body of an error answer (response.text, which the client prints).
ErrorBody == "error"

\* What a GET of a metrics endpoint can produce.
MetricsResponses ==
    {[status |-> 200, payload |-> p] : p \in Payloads}
    \cup {[status |-> s, payload |-> ErrorBody] : s \in {401, 500}}
    \cup {[status |-> NetworkError, payload |-> None]}

\* What a POST to https://api.fitbit.com/oauth2/token can produce.  When a
\* method is called directly the endpoint issues any of the tokens; in a run
\* of main(), where no branch depends on which token was issued, it issues
\* one access token and rotates the refresh token or not.
TokenResponses(in_main) ==
    {[status |-> 200, errorType |-> None, access_token |-> a, refresh_token |-> r] :
        a \in IF in_main THEN {"at1"} ELSE AccessTokens,
        r \in IF in_main THEN {"rt1", None} ELSE RefreshTokens \cup {None}}
    \cup
    {[status |-> s, errorType |-> e, access_token |-> None, refresh_token |-> None] :
        s \in ErrorStatuses, e \in ErrorTypes}
    \cup
    {[status |-> NetworkError, errorType |-> None, access_token |-> None,
      refresh_token |-> None]}

\* Exceptions, by class.  HTTPError (raise_for_status) and ConnectionError
\* are subclasses of requests.exceptions.RequestException.
\* arg is the message (or key), status the HTTP status of an HTTPError.
Exc(type, arg, status) == [type |-> type, arg |-> arg, status |-> status]
HTTPError(status) == Exc("HTTPError", None, status)
ConnectionError == Exc("ConnectionError", None, NetworkError)
ValueError(msg) == Exc("ValueError", msg, NetworkError)
KeyError(key) == Exc("KeyError", key, NetworkError)
AttributeError(name) == Exc("AttributeError", name, NetworkError)
GenericException(msg) == Exc("Exception", msg, NetworkError)
CatchesEveryException(e) == TRUE
IsRequestException(e) == e.type \in {"HTTPError", "ConnectionError"}

(* ------------------------------ state --------------------------------- *)
VARIABLES
    environ,   \* os.environ restricted to the five credential variables
    startup,   \* os.environ as it was when the process started
    self,      \* the tracker's fields
    pc,        \* position of the single thread of execution
    refresh,   \* frame of the running (or last) refresh_fitbit_token call
    fetch,     \* frame of the running (or last) _make_fitbit_request call
    main,      \* frame of main()
    dest,      \* the destination database: number of rows per date
    post,      \* frame of the running (or last) post_to_notion call
    overlap,   \* the runs of main() of processes that overlap in time
    result     \* how the outermost call ended

vars ==
    <<environ, startup, self, pc, refresh, fetch, main, dest, post, overlap,
      result>>

Running == [kind |-> "running", val |-> None, exc |-> Exc(None, None, NetworkError)]
Returned(v) == [kind |-> "returned", val |-> v, exc |-> Exc(None, None, NetworkError)]
Raised(e) == [kind |-> "raised", val |-> None, exc |-> e]

\* last_error = None
NoLastError == [set |-> FALSE, status |-> NetworkError]
\* last_error = response / last_error = e
LastError(status) == [set |-> TRUE, status |-> status]

\* What the token endpoint last answered: its status, its access token and
\* its refresh token (None for a body without the key).
NoAnswer ==
    [status |-> NetworkError, access_token |-> None, refresh_token |-> None]
AnswerOf(resp) ==
    [status |-> resp.status, access_token |-> resp.access_token,
     refresh_token |-> resp.refresh_token]

\* No refresh_fitbit_token call has been made.
IdleRefresh ==
    [retry_count |-> 0, attempt |-> 0, last_error |-> NoLastError, ret |-> None,
     sent |-> None, log |-> <<>>, answer |-> NoAnswer, delays |-> 0,
     outcome |-> Running]

(* ----------------------- refresh_fitbit_token ------------------------- *)
\* Class of a token-endpoint answer, as the handler tells them apart.
ResponseClass(resp) ==
    IF resp.status = NetworkError THEN "network_error"
    ELSE IF resp.status = 200 THEN "ok"
    ELSE IF resp.errorType \in PermanentErrorTypes THEN resp.errorType
    ELSE "http_error"

TransientClasses == {"network_error", "http_error"}

EntersWithExtraAttempt(s, retry_count, ret) ==
    [retry_count |-> retry_count, attempt |-> -1, last_error |-> NoLastError,
     ret |-> ret, sent |-> s.fitbit_refresh_token, log |-> <<>>,
     answer |-> NoAnswer, delays |-> 0, outcome |-> Running]

\* The frame at entry: data (with the refresh token to send) is built once,
\* before the loop.  ret is where control goes when the call ends; log holds
\* the class of the answer to every POST made so far, in order, and answer
\* the last of them; delays counts the time.sleep calls.
EnterRefresh(s, retry_count, ret) ==
    [retry_count |-> retry_count, attempt |-> 0, last_error |-> NoLastError,
     ret |-> ret, sent |-> s.fitbit_refresh_token, log |-> <<>>,
     answer |-> NoAnswer, delays |-> 0, outcome |-> Running]

DelayAfterLastAttempt(attempt, retry_count) == attempt < retry_count
DelayOffByOne(attempt, retry_count) == attempt < retry_count - 2

\* if attempt < retry_count - 1: time.sleep(retry_delay)
DelayTaken(attempt, retry_count) == attempt < retry_count - 1

KeepsHeldToken(s, resp) == s

\* if 'refresh_token' in token_data: replace the held token.
RotateSelf(s, resp) ==
    IF resp.refresh_token # None
        THEN [s EXCEPT !.fitbit_refresh_token = resp.refresh_token]
        ELSE s

KeepsEnviron(env, resp) == env

\* ... and os.environ['FITBIT_REFRESH_TOKEN'].
RotateEnviron(env, resp) ==
    IF resp.refresh_token # None
        THEN [env EXCEPT !.FITBIT_REFRESH_TOKEN = resp.refresh_token]
        ELSE env

\* The exception raised for a permanent error type.
PermanentError(errorType) ==
    IF errorType = "invalid_grant"
        THEN ValueError("Invalid refresh token - needs to be regenerated")
        ELSE ValueError("Invalid client credentials")

OnlyInvalidGrantIsPermanent(resp) == resp.errorType = "invalid_grant"

\* Whether the handler raises at once on this (non-200) answer.
IsPermanent(resp) == resp.errorType \in PermanentErrorTypes

\* The frame after one loop iteration whose POST got resp.
AfterAttempt(f, resp) ==
    LET logged == [f EXCEPT !.log = Append(@, ResponseClass(resp)),
                            !.answer = AnswerOf(resp)] IN
    IF resp.status = 200
        THEN [logged EXCEPT !.outcome = Returned(resp.access_token)]
    ELSE IF resp.status # NetworkError /\ IsPermanent(resp)
        THEN [logged EXCEPT !.outcome = Raised(PermanentError(resp.errorType))]
    ELSE [logged EXCEPT
            !.last_error = LastError(resp.status),
            !.delays = IF DelayTaken(f.attempt, f.retry_count) THEN @ + 1 ELSE @,
            !.attempt = @ + 1]

\* The error the code after the loop raises from last_error.
ExhaustedError(last_error) ==
    IF ~last_error.set
        THEN GenericException("Failed to refresh token after all retries")
    ELSE IF last_error.status = NetworkError THEN ConnectionError
    ELSE HTTPError(last_error.status)

\* One iteration of `for attempt in range(retry_count)`: the POST, the
\* handling of its answer and the delay before the next iteration.
RefreshAttempt ==
    /\ pc = "refresh"
    /\ refresh.attempt < refresh.retry_count
    /\ \E resp \in TokenResponses(main.active) :
        LET f == AfterAttempt(refresh, resp) IN
        /\ refresh' = f
        /\ self' = IF resp.status = 200 THEN RotateSelf(self, resp) ELSE self
        /\ environ' = IF resp.status = 200 THEN RotateEnviron(environ, resp)
                      ELSE environ
        /\ pc' = IF f.outcome.kind = "running" THEN "refresh" ELSE f.ret
    /\ UNCHANGED <<startup, fetch, main, dest, post, overlap, result>>

\* The loop ran out of attempts: raise the last error.
RefreshExhausted ==
    /\ pc = "refresh"
    /\ refresh.attempt >= refresh.retry_count
    /\ refresh' = [refresh EXCEPT !.outcome = Raised(ExhaustedError(refresh.last_error))]
    /\ pc' = refresh.ret
    /\ UNCHANGED <<environ, startup, self, fetch, main, dest, post, overlap, result>>

(* ------------------------------ __init__ ------------------------------ *)
\* The tracker before __init__ has assigned anything.
BlankSelf ==
    [fitbit_client_id |-> Unset, fitbit_client_secret |-> Unset,
     fitbit_refresh_token |-> Unset, notion_token |-> Unset,
     notion_database_id |-> Unset, fitbit_access_token |-> NoAccessToken]

\* A category of health_data for which there is no data (None).
NoData == [present |-> FALSE, keys |-> {}]
NoHealthData ==
    [date |-> 0, activity |-> NoData, sleep |-> NoData, weight |-> NoData]
\* No query of the destination has been made.
NoQuery == [kind |-> None, results |-> <<>>]

\* main() is not on the stack (a method is called directly).
NoMain ==
    [active |-> FALSE, run |-> 0, today |-> 0, date_range |-> <<>>,
     query |-> NoQuery, dates_to_process |-> <<>>, idx |-> 0,
     health_data |-> NoHealthData,
     caught |-> Exc(None, None, NetworkError), exit_status |-> None]
\* main() has been entered, in the run-th process, on day today.
EnterMain(run, today) ==
    [NoMain EXCEPT !.active = TRUE, !.run = run, !.today = today]

\* No _make_fitbit_request call has been made.
IdleFetch ==
    [category |-> None, date |-> 0, ret |-> None, gets |-> <<>>,
     refreshes |-> 0, outcome |-> Running]
\* A destination without rows.
EmptyDest == [d \in Dates |-> 0]

\* The JSON body of a create-row request: the parent database and the
\* properties, a dict from label to typed value.
Body(database_id, properties) ==
    [database_id |-> database_id, properties |-> properties]
\* No process runs main() beside the thread of execution modelled by pc.
NoOverlap == <<>>
\* No post_to_notion call has been made.
IdlePost ==
    [health_data |-> NoHealthData, values |-> <<>>, body |-> Body(None, <<>>),
     requests |-> <<>>, status |-> NetworkError, printed |-> <<>>,
     outcome |-> Running]

\* An exception leaves the running method.  Under main() it reaches
\* `except Exception as e: print(...)`: main prints it and returns, so the
\* process exits 0.  Without main() it reaches the caller.
PropagateMain(m, e) ==
    IF m.active THEN [m EXCEPT !.caught = e, !.exit_status = "0"] ELSE m
PropagateResult(m, e) == IF m.active THEN Returned(None) ELSE Raised(e)

\* Index of the first variable os.environ lacks, 0 when it holds all five.
FirstUnset(env) ==
    IF \E i \in 1..Len(CredentialNames) : env[CredentialNames[i]] = Unset
        THEN CHOOSE i \in 1..Len(CredentialNames) :
                /\ env[CredentialNames[i]] = Unset
                /\ \A j \in 1..(i - 1) : env[CredentialNames[j]] # Unset
        ELSE 0

\* The fields assigned from the first n variables.
AssignCredentials(s, env, n) ==
    [s EXCEPT
        !.fitbit_client_id = IF n >= 1 THEN env.FITBIT_CLIENT_ID ELSE @,
        !.fitbit_client_secret = IF n >= 2 THEN env.FITBIT_CLIENT_SECRET ELSE @,
        !.fitbit_refresh_token = IF n >= 3 THEN env.FITBIT_REFRESH_TOKEN ELSE @,
        !.notion_token = IF n >= 4 THEN env.NOTION_TOKEN ELSE @,
        !.notion_database_id = IF n >= 5 THEN env.NOTION_DATABASE_ID ELSE @]

\* not x or len(x.strip()) == 0
IsBlank(x) == x \in {"", " "}

\* _is_valid_token_format: non-blank, and base64.b64decode of the padded
\* token does not raise ("a" has one data character, which it rejects).
IsValidTokenFormat(token) == ~IsBlank(token) /\ token # "a"

\* _validate_credentials: the message of the ValueError it raises, or None.
ValidateCredentials(s) ==
    IF IsBlank(s.fitbit_client_id) THEN "Invalid FITBIT_CLIENT_ID"
    ELSE IF IsBlank(s.fitbit_client_secret) THEN "Invalid FITBIT_CLIENT_SECRET"
    ELSE IF IsBlank(s.fitbit_refresh_token) THEN "Invalid FITBIT_REFRESH_TOKEN"
    ELSE IF ~IsValidTokenFormat(s.fitbit_refresh_token)
        THEN "Refresh token appears to be malformed"
    ELSE None

\* __init__ up to its call of refresh_fitbit_token: the five reads of
\* os.environ.  A missing variable raises KeyError, which the except
\* clause re-raises; otherwise the refresh is entered at once, before
\* _validate_credentials.
Construct ==
    /\ pc = "construct"
    /\ LET n == FirstUnset(environ) IN
       IF n # 0
          THEN /\ self' = AssignCredentials(self, environ, n - 1)
               /\ main' = PropagateMain(main, KeyError(CredentialNames[n]))
               /\ result' = PropagateResult(main, KeyError(CredentialNames[n]))
               /\ pc' = "done"
               /\ UNCHANGED refresh
          ELSE /\ self' = AssignCredentials(self, environ, Len(CredentialNames))
               /\ refresh' = EnterRefresh(self', DefaultRetryCount, "init_refreshed")
               /\ pc' = "refresh"
               /\ UNCHANGED <<main, result>>
    /\ UNCHANGED <<environ, startup, fetch, dest, post, overlap>>

\* The rest of __init__: the access token is assigned, then
\* _validate_credentials runs.  Any exception is re-raised.
InitAfterRefresh ==
    /\ pc = "init_refreshed"
    /\ IF refresh.outcome.kind = "raised"
          THEN /\ main' = PropagateMain(main, refresh.outcome.exc)
               /\ result' = PropagateResult(main, refresh.outcome.exc)
               /\ pc' = "done"
               /\ UNCHANGED self
          ELSE LET s == [self EXCEPT !.fitbit_access_token = refresh.outcome.val]
                   msg == ValidateCredentials(s)
               IN /\ self' = s
                  /\ IF msg # None
                        THEN /\ main' = PropagateMain(main, ValueError(msg))
                             /\ result' = PropagateResult(main, ValueError(msg))
                             /\ pc' = "done"
                        ELSE /\ pc' = IF main.active THEN "query" ELSE "done"
                             /\ result' = IF main.active THEN result
                                          ELSE Returned(None)
                             /\ UNCHANGED main
    /\ UNCHANGED <<environ, startup, refresh, fetch, dest, post, overlap>>

(* ------------------------ _make_fitbit_request ------------------------ *)
WeightBeforeSleep == <<"activity", "weight", "sleep">>

\* The three category fetchers the class defines, in the order
\* get_comprehensive_health_data calls them.
Categories == <<"activity", "sleep", "weight">>

\* The frame at entry.  gets holds, for every GET made so far, the bearer
\* token it carried and the status and payload of its answer; refreshes
\* counts the calls of refresh_fitbit_token.
EnterFetch(category, date, ret) ==
    [category |-> category, date |-> date, ret |-> ret, gets |-> <<>>,
     refreshes |-> 0, outcome |-> Running]

Exchange(token, resp) ==
    [token |-> token, status |-> resp.status, payload |-> resp.payload]

ReturnsBodyOfAnyAnswer(resp) ==
    IF resp.status = NetworkError THEN Returned(None) ELSE Returned(resp.payload)

RaisesOnErrorStatus(resp) ==
    IF resp.status = 200 THEN Returned(resp.payload)
    ELSE Raised(HTTPError(resp.status))

\* How the request ends on the answer that is not (or no longer) handled as
\* an expired token: 200 returns response.json(); any other status makes
\* raise_for_status raise an HTTPError, which, like a RequestException of
\* requests.get, the except clause turns into `return None`.
RequestOutcome(resp) ==
    IF resp.status = 200 THEN Returned(resp.payload) ELSE Returned(None)

SendsStaleToken(s, refreshed) == s.fitbit_access_token

\* The bearer token of the retried GET: the header is rebuilt from the
\* field that has just been assigned the refreshed token.
RetryToken(s, refreshed) == refreshed

\* The first GET.  A 401 answer enters refresh_fitbit_token().
FetchGet ==
    /\ pc = "fetch_get"
    /\ \E resp \in MetricsResponses :
        LET sent == [fetch EXCEPT
                       !.gets = Append(@, Exchange(self.fitbit_access_token, resp))]
        IN IF resp.status = 401
              THEN /\ fetch' = [sent EXCEPT !.refreshes = @ + 1]
                   /\ refresh' = EnterRefresh(self, DefaultRetryCount, "fetch_refreshed")
                   /\ pc' = "refresh"
              ELSE /\ fetch' = [sent EXCEPT !.outcome = RequestOutcome(resp)]
                   /\ pc' = fetch.ret
                   /\ UNCHANGED refresh
    /\ UNCHANGED <<environ, startup, self, main, dest, post, overlap, result>>

\* refresh_fitbit_token() has ended.  If it raised, a RequestException is
\* caught (return None) and any other exception leaves the method; if it
\* returned, the token is stored and the GET is sent once more.
FetchAfterRefresh ==
    /\ pc = "fetch_refreshed"
    /\ IF refresh.outcome.kind = "raised"
          THEN /\ fetch' = [fetch EXCEPT !.outcome =
                              IF IsRequestException(refresh.outcome.exc)
                                 THEN Returned(None)
                                 ELSE Raised(refresh.outcome.exc)]
               /\ UNCHANGED self
          ELSE /\ self' = [self EXCEPT !.fitbit_access_token = refresh.outcome.val]
               /\ \E resp \in MetricsResponses :
                    fetch' = [fetch EXCEPT
                       !.gets = Append(@, Exchange(
                                   RetryToken(self, refresh.outcome.val), resp)),
                       !.outcome = RequestOutcome(resp)]
    /\ pc' = fetch.ret
    /\ UNCHANGED <<environ, startup, refresh, main, dest, post, overlap, result>>

\* A constructed tracker, as __init__ leaves it for well-formed credentials.
ConstructedSelf(rt, at) ==
    [fitbit_client_id |-> "id", fitbit_client_secret |-> "secret",
     fitbit_refresh_token |-> rt, notion_token |-> "ntn",
     notion_database_id |-> "db", fitbit_access_token |-> at]

EnvironOf(s) ==
    [FITBIT_CLIENT_ID |-> s.fitbit_client_id,
     FITBIT_CLIENT_SECRET |-> s.fitbit_client_secret,
     FITBIT_REFRESH_TOKEN |-> s.fitbit_refresh_token,
     NOTION_TOKEN |-> s.notion_token,
     NOTION_DATABASE_ID |-> s.notion_database_id]

(* ------------------------- category fetchers -------------------------- *)
\* The metrics each fetcher copies into its result, besides 'date'.
CategoryKeys(category) ==
    CASE category = "activity" ->
            {"sedentary_minutes", "lightly_active_minutes",
             "fairly_active_minutes", "very_active_minutes", "steps", "calories"}
      [] category = "sleep" ->
            {"total_minutes_asleep", "total_sleep_records", "total_time_in_bed"}
      [] category = "weight" -> {"weight", "bmi", "log_id"}

\* What get_daily_activity_minutes / get_sleep_data / get_weight_data
\* return for the data _make_fitbit_request returned: the category's
\* metrics for a body that holds them, None for None and for an empty body.
CategoryValue(category, data) ==
    IF data = "full"
        THEN [present |-> TRUE, keys |-> CategoryKeys(category)]
        ELSE NoData

(* ------------------------ check_existing_entries ---------------------- *)
\* A row whose Date property holds no date.
NoDate == 0

\* Ways the query can fail: requests.post raises, raise_for_status raises,
\* or the body lacks the fields read from it.
QueryFailures == {"network_error", "http_error", "malformed"}

InSeq(x, seq) == \E i \in 1..Len(seq) : seq[i] = x

\* The 'start' of every returned row whose Date property holds a date.
ExistingDates(results) == SelectSeq(results, LAMBDA r : r # NoDate)

ReturnsAllDates(dates, existing_dates) == dates
ReturnsExistingDates(dates, existing_dates) ==
    SelectSeq(dates, LAMBDA d : InSeq(d, existing_dates))

\* new_dates = [date for date in dates if date not in existing_dates]
NewDates(dates, existing_dates) ==
    SelectSeq(dates, LAMBDA d : ~InSeq(d, existing_dates))

FailsClosed(dates, resp) ==
    IF resp.kind = "ok" THEN NewDates(dates, ExistingDates(resp.results)) ELSE <<>>

\* What check_existing_entries(dates) returns when the query gets resp:
\* any exception inside the try block ends in `return dates`.
CheckExistingEntries(dates, resp) ==
    IF resp.kind = "ok"
        THEN NewDates(dates, ExistingDates(resp.results))
        ELSE dates

(* --------------------------- post_to_notion --------------------------- *)
\* Strings whose characters the code rewrites are sequences of characters.
Letters ==
    <<"a", "b", "c", "d", "e", "f", "g", "h", "i", "j", "k", "l", "m",
      "n", "o", "p", "q", "r", "s", "t", "u", "v", "w", "x", "y", "z">>
Capitals ==
    <<"A", "B", "C", "D", "E", "F", "G", "H", "I", "J", "K", "L", "M",
      "N", "O", "P", "Q", "R", "S", "T", "U", "V", "W", "X", "Y", "Z">>
IndexIn(c, seq) == CHOOSE i \in 1..Len(seq) : seq[i] = c
IsCased(c) == InSeq(c, Letters) \/ InSeq(c, Capitals)
Upper(c) == IF InSeq(c, Letters) THEN Capitals[IndexIn(c, Letters)] ELSE c
Lower(c) == IF InSeq(c, Capitals) THEN Letters[IndexIn(c, Capitals)] ELSE c

\* str.replace(old, new) for one-character old and new.
Replace(s, old, new) ==
    [i \in 1..Len(s) |-> IF s[i] = old THEN new ELSE s[i]]

\* str.title(): a cased character is upper-cased when it follows an
\* uncased one (or starts the string) and lower-cased otherwise.
Title(s) ==
    [i \in 1..Len(s) |->
        IF i > 1 /\ IsCased(s[i - 1]) THEN Lower(s[i]) ELSE Upper(s[i])]

\* The characters of the keys of the fetchers' dicts.
Spelling(key) ==
    CASE key = "date" ->
            <<"d", "a", "t", "e">>
      [] key = "sedentary_minutes" ->
            <<"s", "e", "d", "e", "n", "t", "a", "r", "y", "_", "m", "i", "n", "u", "t", "e", "s">>
      [] key = "lightly_active_minutes" ->
            <<"l", "i", "g", "h", "t", "l", "y", "_", "a", "c", "t", "i", "v", "e", "_", "m", "i", "n", "u", "t", "e", "s">>
      [] key = "fairly_active_minutes" ->
            <<"f", "a", "i", "r", "l", "y", "_", "a", "c", "t", "i", "v", "e", "_", "m", "i", "n", "u", "t", "e", "s">>
      [] key = "very_active_minutes" ->
            <<"v", "e", "r", "y", "_", "a", "c", "t", "i", "v", "e", "_", "m", "i", "n", "u", "t", "e", "s">>
      [] key = "steps" ->
            <<"s", "t", "e", "p", "s">>
      [] key = "calories" ->
            <<"c", "a", "l", "o", "r", "i", "e", "s">>
      [] key = "total_minutes_asleep" ->
            <<"t", "o", "t", "a", "l", "_", "m", "i", "n", "u", "t", "e", "s", "_", "a", "s", "l", "e", "e", "p">>
      [] key = "total_sleep_records" ->
            <<"t", "o", "t", "a", "l", "_", "s", "l", "e", "e", "p", "_", "r", "e", "c", "o", "r", "d", "s">>
      [] key = "total_time_in_bed" ->
            <<"t", "o", "t", "a", "l", "_", "t", "i", "m", "e", "_", "i", "n", "_", "b", "e", "d">>
      [] key = "weight" ->
            <<"w", "e", "i", "g", "h", "t">>
      [] key = "bmi" ->
            <<"b", "m", "i">>
      [] key = "log_id" ->
            <<"l", "o", "g", "_", "i", "d">>

\* key.replace('_', ' ').title(), for every key of the fetchers' dicts.
Labels ==
    [key \in UNION {CategoryKeys(Categories[i]) \cup {"date"} :
                       i \in 1..Len(Categories)} |->
        Title(Replace(Spelling(key), "_", " "))]
Label(key) == Labels[key]

\* The key of the one property the code writes before the loop.
DateLabel == <<"D", "a", "t", "e">>

\* The typed values of a property: {"date": {"start": d}}, {"number": v}.
DateProperty(d) == [type |-> "date", value |-> d]
NumberProperty(v) == [type |-> "number", value |-> v]

\* The keys of a category's dict, 'date' included, as the fetchers build it.
DictKeys(category) == CategoryKeys(category) \cup {"date"}

\* `if category != 'date' and data`: None and the empty dict are falsy.
Truthy(data) == data.present /\ data.keys # {}

WritesEveryMetric(category, data) == CategoryKeys(category)

\* The keys of a category for which the loop assigns a property:
\* `for key, value in data.items(): if key != 'date'`.
WrittenKeys(category, data) ==
    IF Truthy(data) THEN {k \in data.keys : k # "date"} ELSE {}

\* properties after the inner loop has run over one category's dict: every
\* written key's number stands under its label, replacing what was there.
Assigned(properties, category, data, values) ==
    LET written == WrittenKeys(category, data) IN
    [l \in DOMAIN properties \cup {Label(k) : k \in written} |->
        IF \E k \in written : Label(k) = l
           THEN NumberProperty(values[CHOOSE k \in written : Label(k) = l])
           ELSE properties[l]]

RECURSIVE AssignedUpTo(_, _, _)
\* properties after the first n categories of health_data.items().
AssignedUpTo(n, health_data, values) ==
    IF n = 0
       THEN [l \in {DateLabel} |-> DateProperty(health_data.date)]
       ELSE Assigned(AssignedUpTo(n - 1, health_data, values),
                     Categories[n], health_data[Categories[n]], values)

\* properties as the body holds it.
Properties(health_data, values) ==
    AssignedUpTo(Len(Categories), health_data, values)

\* Statuses of the answer to POST {notion_base_url}pages.
CreateStatuses == {200, 400, 500, NetworkError}

\* The exception the try block raises on a status other than 200.
CreateError(status) ==
    IF status = NetworkError THEN ConnectionError ELSE HTTPError(status)

SwallowsCreateError(status) == Returned(None)

\* How post_to_notion ends: it returns None after a 200 answer, and its
\* except clause ends in a bare `raise` on anything else.
CreateOutcome(status) ==
    IF status = 200 THEN Returned(None) ELSE Raised(CreateError(status))

\* post_to_notion(health_data): the properties and the body are built, the
\* body is POSTed once; 200 creates the row, anything else prints the
\* error and the body and re-raises.
PostToNotion ==
    /\ pc = "post"
    /\ LET body == Body(self.notion_database_id,
                        Properties(post.health_data, post.values))
       IN \E status \in CreateStatuses :
           /\ post' = [post EXCEPT
                          !.body = body,
                          !.requests = Append(@, body),
                          !.status = status,
                          !.printed = IF status = 200 THEN @ ELSE Append(@, body),
                          !.outcome = CreateOutcome(status)]
           /\ dest' = IF status = 200
                         THEN [dest EXCEPT ![post.health_data.date] = @ + 1]
                         ELSE dest
           /\ result' = CreateOutcome(status)
    /\ pc' = "done"
    /\ UNCHANGED <<environ, startup, self, refresh, fetch, main, overlap>>
(* -------------------------------- main -------------------------------- *)
\* date_range: today and the six days before it, most recent first.
DateRange(today) == [i \in 1..WindowDays |-> today - (i - 1)]

RECURSIVE Rows(_, _)
\* n rows dated d.
Rows(d, n) == IF n = 0 THEN <<>> ELSE <<d>> \o Rows(d, n - 1)

RECURSIVE Matching(_, _)
\* The rows the destination returns for the OR of "Date equals d" over
\* dates: every row of every date in dates.
Matching(dates, rows) ==
    IF dates = <<>> THEN <<>>
    ELSE Rows(Head(dates), rows[Head(dates)]) \o Matching(Tail(dates), rows)

\* What the query of the destination can produce.
QueryResponses(dates, rows) ==
    {[kind |-> "ok", results |-> Matching(dates, rows)]}
    \cup {[kind |-> k, results |-> <<>>] : k \in QueryFailures}

\* date_range is built and check_existing_entries(date_range) queries the
\* destination; its result is dates_to_process.
MainCheckExisting ==
    /\ pc = "query"
    /\ LET dates == DateRange(main.today) IN
       \E resp \in QueryResponses(dates, dest) :
          main' = [main EXCEPT
                     !.date_range = dates,
                     !.query = resp,
                     !.dates_to_process = CheckExistingEntries(dates, resp),
                     !.idx = 1]
    /\ refresh' = IdleRefresh
    /\ pc' = "loop"
    /\ UNCHANGED <<environ, startup, self, fetch, dest, post, overlap, result>>

\* `for date in dates_to_process`: the next date enters
\* get_comprehensive_health_data, whose first call is the activity fetcher;
\* after the last date main returns and the process exits 0.
MainLoop ==
    /\ pc = "loop"
    /\ IF main.idx > Len(main.dates_to_process)
          THEN /\ main' = [main EXCEPT !.exit_status = "0"]
               /\ result' = Returned(None)
               /\ pc' = "done"
               /\ UNCHANGED fetch
          ELSE LET date == main.dates_to_process[main.idx] IN
               /\ main' = [main EXCEPT !.health_data =
                              [NoHealthData EXCEPT !.date = date]]
               /\ fetch' = EnterFetch(Categories[1], date, "category_return")
               /\ pc' = "fetch_get"
               /\ UNCHANGED result
    /\ UNCHANGED <<environ, startup, self, refresh, dest, post, overlap>>

\* Position of a category in Categories.
CategoryIndex(category) ==
    CHOOSE i \in 1..Len(Categories) : Categories[i] = category

\* A category fetcher returns into get_comprehensive_health_data, which
\* calls the next one; an exception that left _make_fitbit_request leaves
\* the fetcher, get_comprehensive_health_data and reaches main's handler.
CategoryReturn ==
    /\ pc = "category_return"
    /\ IF fetch.outcome.kind = "raised"
          THEN /\ main' = PropagateMain(main, fetch.outcome.exc)
               /\ result' = PropagateResult(main, fetch.outcome.exc)
               /\ pc' = "done"
               /\ UNCHANGED <<fetch, refresh>>
          ELSE LET c == fetch.category
                   i == CategoryIndex(c)
                   v == CategoryValue(c, fetch.outcome.val)
               IN /\ main' = [main EXCEPT !.health_data[c] = v]
                  /\ refresh' = IdleRefresh
                  /\ IF i < Len(Categories)
                        THEN /\ fetch' = EnterFetch(Categories[i + 1], fetch.date,
                                                    "category_return")
                             /\ pc' = "fetch_get"
                        ELSE /\ fetch' = IdleFetch
                             /\ pc' = "heart_rate"
                  /\ UNCHANGED result
    /\ UNCHANGED <<environ, startup, self, dest, post, overlap>>

\* 'heart_rate': self.get_heart_rate_data(date).  The class defines no such
\* method, so the attribute lookup raises AttributeError, which reaches
\* main's handler: post_to_notion is not called.
GetHeartRateData ==
    /\ pc = "heart_rate"
    /\ main' = PropagateMain(main, AttributeError("get_heart_rate_data"))
    /\ result' = PropagateResult(main, AttributeError("get_heart_rate_data"))
    /\ pc' = "done"
    /\ UNCHANGED <<environ, startup, self, refresh, fetch, dest, post, overlap>>

\* The environment of a run of main(): well-formed, or lacking a variable,
\* or holding an empty one (SpecConstruct covers every environment).
GoodEnviron == EnvironOf(ConstructedSelf("rt0", NoAccessToken))
MainEnvirons ==
    {GoodEnviron,
     [GoodEnviron EXCEPT !.NOTION_TOKEN = Unset],
     [GoodEnviron EXCEPT !.FITBIT_CLIENT_SECRET = ""]}

\* Destinations in which at most MaxExistingRows dates hold a row, one each.
InitialDests ==
    {d \in [Dates -> {0, 1}] :
        Cardinality({x \in Dates : d[x] = 1}) <= MaxExistingRows}

\* A process starts main() on day today.
StartProcess(env, run, today) ==
    /\ environ' = env
    /\ startup' = env
    /\ self' = BlankSelf
    /\ refresh' = IdleRefresh
    /\ fetch' = IdleFetch
    /\ main' = EnterMain(run, today)
    /\ result' = Running
    /\ pc' = "construct"

\* The process has exited; the scheduler starts the next run.
StartRun ==
    /\ pc = "done"
    /\ main.active
    /\ main.run < MaxRuns
    /\ \E env \in MainEnvirons : StartProcess(env, main.run + 1, main.today)
    /\ UNCHANGED <<dest, post, overlap>>

Init ==
    /\ environ \in MainEnvirons
    /\ startup = environ
    /\ self = BlankSelf
    /\ refresh = IdleRefresh
    /\ fetch = IdleFetch
    /\ main = EnterMain(1, WindowDays)
    /\ dest \in InitialDests
    /\ post = IdlePost
    /\ overlap = NoOverlap
    /\ result = Running
    /\ pc = "construct"

Next ==
    \/ Construct \/ RefreshAttempt \/ RefreshExhausted \/ InitAfterRefresh
    \/ MainCheckExisting \/ MainLoop
    \/ FetchGet \/ FetchAfterRefresh \/ CategoryReturn \/ GetHeartRateData
    \/ StartRun

Spec == Init /\ [][Next]_vars

(* ---------------------- overlapping runs of main ---------------------- *)
\* Two processes run main() against the same destination at the same time,
\* each with well-formed credentials and a tracker of its own.  A process
\* touches the destination in its existence query only, so the steps
\* between two accesses of the destination are taken as one.
Procs == {"A", "B"}

\* The errors refresh_fitbit_token raises (retry_count >= 1).
RefreshErrors ==
    {PermanentError(t) : t \in PermanentErrorTypes}
    \cup {ConnectionError} \cup {HTTPError(st) : st \in ErrorStatuses}

\* Every process is about to construct its tracker.
StartOverlap ==
    [p \in Procs |-> [pc |-> "construct", main |-> EnterMain(1, WindowDays)]]

\* tracker = FitbitNotionTracker(): the refresh in __init__ returns a token
\* or raises, and then main's handler ends the run.
OverlapConstruct(p) ==
    /\ overlap[p].pc = "construct"
    /\ \E outcome \in {Returned(None)} \cup {Raised(e) : e \in RefreshErrors} :
          overlap' = [overlap EXCEPT ![p] =
             IF outcome.kind = "raised"
                THEN [pc |-> "done", main |-> PropagateMain(@.main, outcome.exc)]
                ELSE [pc |-> "query", main |-> @.main]]
    /\ UNCHANGED <<environ, startup, self, pc, refresh, fetch, main, dest, post,
                   result>>

\* dates_to_process = tracker.check_existing_entries(date_range)
OverlapCheckExisting(p) ==
    /\ overlap[p].pc = "query"
    /\ LET dates == DateRange(overlap[p].main.today) IN
       \E resp \in QueryResponses(dates, dest) :
          overlap' = [overlap EXCEPT ![p] =
             [pc |-> "loop",
              main |-> [@.main EXCEPT
                          !.date_range = dates,
                          !.query = resp,
                          !.dates_to_process = CheckExistingEntries(dates, resp),
                          !.idx = 1]]]
    /\ UNCHANGED <<environ, startup, self, pc, refresh, fetch, main, dest, post,
                   result>>

\* The date loop.  Without a date main returns.  Otherwise
\* get_comprehensive_health_data(date) runs for the first date: n category
\* fetchers return (data or None), then either the next one raises the
\* permanent error of a token refresh or, after the last,
\* get_heart_rate_data raises AttributeError; main's handler ends the run.
OverlapCollect(p) ==
    /\ overlap[p].pc = "loop"
    /\ LET m == overlap[p].main IN
       IF m.idx > Len(m.dates_to_process)
          THEN overlap' = [overlap EXCEPT ![p] =
                  [pc |-> "done", main |-> [m EXCEPT !.exit_status = "0"]]]
          ELSE \E n \in 0..Len(Categories), got \in [1..Len(Categories) -> BOOLEAN],
                  t \in PermanentErrorTypes :
                  LET value(i) == IF i <= n /\ got[i]
                                     THEN CategoryValue(Categories[i], "full")
                                     ELSE NoData
                      hd == [date |-> m.dates_to_process[m.idx],
                             activity |-> value(1), sleep |-> value(2),
                             weight |-> value(3)]
                      e == IF n = Len(Categories)
                              THEN AttributeError("get_heart_rate_data")
                              ELSE PermanentError(t)
                  IN overlap' = [overlap EXCEPT ![p] =
                        [pc |-> "done",
                         main |-> PropagateMain([m EXCEPT !.health_data = hd], e)]]
    /\ UNCHANGED <<environ, startup, self, pc, refresh, fetch, main, dest, post,
                   result>>

InitOverlap ==
    /\ self = ConstructedSelf("rt0", "at1")
    /\ environ = EnvironOf(self)
    /\ startup = environ
    /\ refresh = IdleRefresh
    /\ fetch = IdleFetch
    /\ main = NoMain
    /\ post = IdlePost
    /\ dest \in InitialDests
    /\ overlap = StartOverlap
    /\ result = Running
    /\ pc = "overlap"

NextOverlap ==
    \E p \in Procs :
        OverlapConstruct(p) \/ OverlapCheckExisting(p) \/ OverlapCollect(p)

SpecOverlap == InitOverlap /\ [][NextOverlap]_vars
(* ------------------- harness: _make_fitbit_request -------------------- *)
\* _make_fitbit_request(endpoint) called on a constructed tracker for the
\* endpoint of each category.
InitFetch ==
    \E rt \in RefreshTokens, at \in AccessTokens, c \in 1..Len(Categories) :
        /\ self = ConstructedSelf(rt, at)
        /\ environ = EnvironOf(self)
        /\ startup = environ
        /\ refresh = IdleRefresh
        /\ fetch = EnterFetch(Categories[c], 1, "done")
        /\ pc = "fetch_get"
        /\ main = NoMain
        /\ dest = EmptyDest
        /\ post = IdlePost
        /\ overlap = NoOverlap
        /\ result = Running

NextFetch == FetchGet \/ RefreshAttempt \/ RefreshExhausted \/ FetchAfterRefresh

SpecFetch == InitFetch /\ [][NextFetch]_vars

(* -------------------- harness: refresh_fitbit_token ------------------- *)
\* refresh_fitbit_token(retry_count) called on a constructed tracker, for
\* every retry_count of 1..MaxRetryCount.
InitRefresh ==
    \E rt \in RefreshTokens, at \in AccessTokens, n \in 1..MaxRetryCount :
        /\ self = ConstructedSelf(rt, at)
        /\ environ = EnvironOf(self)
        /\ startup = environ
        /\ refresh = EnterRefresh(self, n, "done")
        /\ pc = "refresh"
        /\ fetch = IdleFetch
        /\ main = NoMain
        /\ dest = EmptyDest
        /\ post = IdlePost
        /\ overlap = NoOverlap
        /\ result = Running

NextRefresh == RefreshAttempt \/ RefreshExhausted

SpecRefresh == InitRefresh /\ [][NextRefresh]_vars

(* --------------------------- harness: __init__ ------------------------ *)
\* Every assignment of the five variables.
Environs ==
    [FITBIT_CLIENT_ID : CredentialValues.FITBIT_CLIENT_ID,
     FITBIT_CLIENT_SECRET : CredentialValues.FITBIT_CLIENT_SECRET,
     FITBIT_REFRESH_TOKEN : CredentialValues.FITBIT_REFRESH_TOKEN,
     NOTION_TOKEN : CredentialValues.NOTION_TOKEN,
     NOTION_DATABASE_ID : CredentialValues.NOTION_DATABASE_ID]

\* FitbitNotionTracker() called directly, under every environment.
InitConstruct ==
    /\ environ \in Environs
    /\ startup = environ
    /\ self = BlankSelf
    /\ refresh = IdleRefresh
    /\ fetch = IdleFetch
    /\ pc = "construct"
    /\ main = NoMain
    /\ dest = EmptyDest
    /\ post = IdlePost
    /\ overlap = NoOverlap
    /\ result = Running

NextConstruct == Construct \/ RefreshAttempt \/ RefreshExhausted \/ InitAfterRefresh

SpecConstruct == InitConstruct /\ [][NextConstruct]_vars

(* ------------------------ harness: post_to_notion --------------------- *)
\* Values of a category passed to post_to_notion: None, the dict a fetcher
\* builds, and every dict holding at most MaxMetrics of its keys (the empty
\* dict included).
PostCategoryInputs(category) ==
    {NoData} \cup
    {[present |-> TRUE, keys |-> K] :
        K \in {X \in SUBSET DictKeys(category) :
                  Cardinality(X) <= MaxMetrics \/ X = DictKeys(category)}}

\* The numbers the metrics hold: all zero, or all zero but steps.
MetricKeys == UNION {CategoryKeys(Categories[i]) : i \in 1..Len(Categories)}
MetricValues ==
    {[k \in MetricKeys |-> 0],
     [k \in MetricKeys |-> IF k = "steps" THEN 5000 ELSE 0]}

\* post_to_notion(health_data) called directly on a constructed tracker,
\* against a destination that holds no row or one row for the date.
InitPost ==
    /\ self = ConstructedSelf("rt0", "at1")
    /\ environ = EnvironOf(self)
    /\ startup = environ
    /\ refresh = IdleRefresh
    /\ fetch = IdleFetch
    /\ main = NoMain
    /\ overlap = NoOverlap
    /\ result = Running
    /\ pc = "post"
    /\ \E d \in {1, WindowDays}, a \in PostCategoryInputs("activity"),
          s \in PostCategoryInputs("sleep"), w \in PostCategoryInputs("weight"),
          v \in MetricValues :
          /\ post = [IdlePost EXCEPT
                       !.health_data = [date |-> d, activity |-> a,
                                        sleep |-> s, weight |-> w],
                       !.values = v]
          /\ dest \in {EmptyDest, [EmptyDest EXCEPT ![d] = 1]}

NextPost == PostToNotion

SpecPost == InitPost /\ [][NextPost]_vars

(* --------------------- harness: check_existing_entries ---------------- *)
\* Sequences over S of length at most n.
SeqsUpTo(S, n) == UNION {[1..k -> S] : k \in 0..n}

\* Lists of dates passed to check_existing_entries: every list of at most
\* MaxFilterLen dates (repetitions included) and the 7-day window.
FilterInputs == SeqsUpTo(1..MaxFilterLen, MaxFilterLen) \cup {DateRange(WindowDays)}

\* Answers to the query: any list of at most MaxResults rows, each dated or
\* holding no date, or a failure.
FilterResponses ==
    {[kind |-> "ok", results |-> r] :
        r \in SeqsUpTo({NoDate} \cup (1..MaxFilterLen), MaxResults)}
    \cup {[kind |-> k, results |-> <<>>] : k \in QueryFailures}

InitFilter ==
    /\ self = ConstructedSelf("rt0", "at1")
    /\ environ = EnvironOf(self)
    /\ startup = environ
    /\ refresh = IdleRefresh
    /\ fetch = IdleFetch
    /\ \E dates \in FilterInputs : main = [NoMain EXCEPT !.date_range = dates]
    /\ dest = EmptyDest
    /\ post = IdlePost
    /\ overlap = NoOverlap
    /\ result = Running
    /\ pc = "filter"

\* check_existing_entries(dates) called directly: the query is answered
\* and the method returns.
FilterCall ==
    /\ pc = "filter"
    /\ \E resp \in FilterResponses :
          /\ main' = [main EXCEPT
                        !.query = resp,
                        !.dates_to_process = CheckExistingEntries(main.date_range, resp)]
          /\ result' = Returned(None)
    /\ pc' = "done"
    /\ UNCHANGED <<environ, startup, self, refresh, fetch, dest, post, overlap>>

NextFilter == FilterCall

SpecFilter == InitFilter /\ [][NextFilter]_vars

(* ------------------- claims on refresh_fitbit_token ------------------- *)
RefreshEnded == refresh.outcome.kind # "running"
Posts == Len(refresh.log)
AllTransient(log, n) == \A i \in 1..n : log[i] \in TransientClasses

\* C1: a non-200 answer whose first error is invalid_grant or invalid_client
\* ends the refresh at once with an error: it is the last POST of the call,
\* no delay follows it, and when it answers the first POST the call made
\* exactly one POST and took no delay, whatever retry_count >= 1 is.
C1_PermanentErrorFailsAtOnce ==
    \A i \in 1..Posts :
        refresh.log[i] \in PermanentErrorTypes =>
            /\ i = Posts
            /\ refresh.outcome = Raised(PermanentError(refresh.log[i]))
            /\ pc = refresh.ret
            /\ refresh.delays = i - 1
            /\ (i = 1 => Posts = 1 /\ refresh.delays = 0)

C1_Witness ==
    /\ refresh.retry_count = DefaultRetryCount
    /\ refresh.log = <<"invalid_grant">>
    /\ refresh.outcome.kind = "raised"
    /\ refresh.delays = 0

\* C2: when the first k POSTs fail transiently and POST k+1 is answered 200
\* (k < retry_count), the refresh returns the access token of that answer
\* after exactly k+1 POSTs and exactly k delays; a refresh returns a token
\* in no other way.
C2_SucceedsAfterTransientFailures ==
    /\ (RefreshEnded /\ Posts > 0 /\ refresh.log[Posts] = "ok") =>
          LET k == Posts - 1 IN
          /\ AllTransient(refresh.log, k)
          /\ k < refresh.retry_count
          /\ refresh.answer.access_token \in AccessTokens
          /\ refresh.outcome = Returned(refresh.answer.access_token)
          /\ refresh.delays = k
    /\ refresh.outcome.kind = "returned" => Posts > 0 /\ refresh.log[Posts] = "ok"

C2_Witness ==
    /\ refresh.retry_count = DefaultRetryCount
    /\ refresh.log = <<"http_error", "http_error", "ok">>
    /\ refresh.outcome.kind = "returned"
    /\ refresh.delays = 2

\* C3: when every attempt fails transiently the refresh makes exactly
\* retry_count POSTs with exactly retry_count - 1 delays, then raises the
\* error of the last attempt (the HTTP error of its status, or the network
\* error); it returns no token.  While the call runs, every failure so far
\* was followed by a delay.
C3_ExhaustedRetriesRaiseLastError ==
    /\ (RefreshEnded /\ Posts > 0 /\ AllTransient(refresh.log, Posts)) =>
          /\ Posts = refresh.retry_count
          /\ refresh.delays = refresh.retry_count - 1
          /\ refresh.outcome =
                Raised(IF refresh.answer.status = NetworkError
                          THEN ConnectionError
                          ELSE HTTPError(refresh.answer.status))
    /\ (~RefreshEnded /\ Posts < refresh.retry_count) => refresh.delays = Posts

C3_Witness ==
    /\ refresh.retry_count = DefaultRetryCount
    /\ refresh.log = <<"http_error", "network_error", "http_error">>
    /\ refresh.outcome.kind = "raised"
    /\ refresh.delays = 2

(* ------------------- claims on _make_fitbit_request ------------------- *)
FetchEnded == fetch.outcome.kind # "running"
Gets == Len(fetch.gets)

\* C4: when the first GET is answered 401 and the second 200, exactly one
\* token refresh took place between them, the held access token is the
\* refreshed one, the second GET carried it, and the call returns the
\* payload of the 200 answer.  A second GET is only sent after a 401.
C4_RefreshOnceAndRetry ==
    /\ (Gets = 2 /\ fetch.gets[1].status = 401 /\ fetch.gets[2].status = 200) =>
          /\ fetch.refreshes = 1
          /\ refresh.outcome = Returned(refresh.answer.access_token)
          /\ self.fitbit_access_token = refresh.answer.access_token
          /\ fetch.gets[2].token = refresh.answer.access_token
          /\ fetch.gets[2].payload \in Payloads
          /\ fetch.outcome = Returned(fetch.gets[2].payload)
    /\ Gets >= 2 => fetch.gets[1].status = 401

C4_Witness ==
    /\ Gets = 2
    /\ fetch.gets[1].status = 401
    /\ fetch.gets[2].status = 200
    /\ fetch.gets[1].token # fetch.gets[2].token
    /\ fetch.outcome = Returned("full")

\* C5: when both GETs are answered 401 the call ends without a payload (it
\* returns None) after exactly two GETs and one token refresh; whatever the
\* answers, a call sends at most two GETs and refreshes at most once.
C5_SecondAuthFailureEndsTheCall ==
    /\ (Gets >= 2 /\ fetch.gets[1].status = 401 /\ fetch.gets[2].status = 401) =>
          /\ Gets = 2
          /\ fetch.refreshes = 1
          /\ fetch.outcome = Returned(None)
          /\ pc = fetch.ret
    /\ Gets <= 2
    /\ fetch.refreshes <= 1
    /\ (FetchEnded /\ fetch.outcome.kind = "returned") =>
          fetch.outcome.val \in Payloads \cup {None}

C5_Witness ==
    /\ Gets = 2
    /\ fetch.gets[1].status = 401
    /\ fetch.gets[2].status = 401
    /\ fetch.refreshes = 1
    /\ FetchEnded

(* ------------------ claims on check_existing_entries ------------------ *)
\* Positions of the input dates that are the date of no returned row.
Kept(dates, results) ==
    {i \in 1..Len(dates) : \A j \in 1..Len(results) : results[j] # dates[i]}

\* C6: when the query succeeds the method returns exactly the input dates
\* that are the date of no returned row, each as often as the input holds
\* it and in input order; for the 7-day window and rows dated 1 and 2 it
\* returns the other five dates.
C6_ReturnsUnrecordedDatesInOrder ==
    (pc = "done" /\ main.query.kind = "ok") =>
        LET dates == main.date_range
            out == main.dates_to_process
            kept == Kept(dates, main.query.results)
        IN /\ Len(out) = Cardinality(kept)
           /\ \A i \in kept : out[Cardinality({j \in kept : j <= i})] = dates[i]
           /\ (dates = DateRange(WindowDays) /\ main.query.results = <<1, 2>>) =>
                 out = <<7, 6, 5, 4, 3>>

C6_Witness ==
    /\ pc = "done"
    /\ main.date_range = DateRange(WindowDays)
    /\ main.query = [kind |-> "ok", results |-> <<1, 2>>]
    /\ main.dates_to_process = <<7, 6, 5, 4, 3>>

Reported == {main.query.results[i] : i \in 1..Len(main.query.results)}

\* C8: over non-overlapping runs whose existence query succeeds the
\* destination holds at most one row per date.  The dates a run processes
\* (the only ones it would issue a create-row request for) never include a
\* date the query reported as present and never include a date twice; the
\* date being processed is such a date.
C8_AtMostOneRowPerDate ==
    /\ \A d \in Dates : dest[d] <= 1
    /\ main.query.kind = "ok" =>
          LET todo == main.dates_to_process IN
          /\ \A i \in 1..Len(todo) : todo[i] \notin Reported
          /\ \A i, j \in 1..Len(todo) : i # j => todo[i] # todo[j]
          /\ main.health_data.date # 0 => main.health_data.date \notin Reported
          /\ (pc = "fetch_get" /\ main.active) => fetch.date \notin Reported

C8_Witness ==
    /\ main.run = MaxRuns
    /\ main.query.kind = "ok"
    /\ Reported # {}
    /\ Len(main.dates_to_process) = WindowDays - 1
    /\ pc = "done"
    /\ main.health_data.date # 0

\* C9: in a run in which the token refresh and the existence query succeed
\* and every metrics request is answered with data, each date of the window
\* without a row gets exactly one row, and the process exits 0 without an
\* error.  (The row's fields are not reached: no row is created.)
C9_EndToEndCreatesTheRow ==
    (/\ pc = "done"
     /\ main.active
     /\ main.query.kind = "ok"
     /\ main.health_data.date # 0
     /\ main.health_data.activity.present
     /\ main.health_data.sleep.present
     /\ main.health_data.weight.present) =>
        /\ dest[main.health_data.date] = 1
        /\ main.exit_status = "0"
        /\ main.caught.type = None

(* ------------------------- claims on __init__ ------------------------- *)
\* A required credential is absent from the environment, or empty.
DefectiveCredential ==
    \E i \in 1..Len(CredentialNames) : startup[CredentialNames[i]] \in {Unset, ""}

\* C10: with a required credential absent or empty, construction fails with
\* an error, and no POST to the token endpoint is made before it does.
C10_DefectiveCredentialFailsBeforeNetwork ==
    DefectiveCredential =>
        /\ Len(refresh.log) = 0
        /\ pc = "done" => result.kind = "raised"

\* The five variables hold non-empty, well-formed values at startup.
ValidCredentials ==
    /\ \A i \in 1..Len(CredentialNames) :
          startup[CredentialNames[i]] # Unset /\ ~IsBlank(startup[CredentialNames[i]])
    /\ IsValidTokenFormat(startup.FITBIT_REFRESH_TOKEN)

\* The tracker holds, for each of the names, the value read at startup.
HeldAsRead(names) ==
    \A n \in names : EnvironOf(self)[n] = startup[n]

C12_UncaughtErrorExitsNonZero ==
    (pc = "done" /\ main.active) =>
        (main.exit_status = "0" <=> main.caught.type = None)

(* ------------- claims on get_comprehensive_health_data ---------------- *)
\* The metrics read that has just ended failed with a non-success HTTP
\* status (on the first GET or on the retried one), a second 401 included.
FailedRead ==
    /\ Gets >= 1
    /\ LET last == fetch.gets[Gets] IN
       \/ last.status \notin {200, 401, NetworkError}
       \/ Gets = 2 /\ last.status = 401

\* C13: when a category's read ends on a non-success HTTP status, or on a
\* second 401 after the one refresh-and-retry, the read returns None
\* instead of raising; the step that follows stores None for that category
\* alone, leaves the other categories of the date as they are, hands no
\* error to main, and starts the read of the next category for the same
\* date (after the last category, control reaches the heart-rate entry).
C13_FailedReadDegradesOneCategory ==
    [][(pc = "category_return" /\ main.active /\ FailedRead) =>
          /\ fetch.outcome = Returned(None)
          /\ main'.health_data =
                [main.health_data EXCEPT ![fetch.category] = NoData]
          /\ main'.caught = main.caught
          /\ main.caught.type = None
          /\ main'.exit_status = None
          /\ result' = Running
          /\ LET i == CategoryIndex(fetch.category) IN
             IF i < Len(Categories)
                THEN /\ pc' = "fetch_get"
                     /\ fetch'.category = Categories[i + 1]
                     /\ fetch'.date = fetch.date
                     /\ fetch'.gets = <<>>
                ELSE pc' = "heart_rate"]_vars

C13_Witness ==
    /\ main.active
    /\ pc = "category_return"
    /\ fetch.category = "sleep"
    /\ Gets = 2
    /\ fetch.gets[1].status = 401
    /\ fetch.gets[2].status = 401
    /\ fetch.outcome = Returned(None)
    /\ main.health_data.activity.present
    /\ main.caught.type = None

(* ----------------------- claims on post_to_notion ---------------------- *)
\* The metrics of a category of the posted health_data: the keys of its
\* dict other than 'date'; none for None.
PostedMetrics(c) ==
    IF post.health_data[c].present THEN post.health_data[c].keys \ {"date"} ELSE {}
CategoryNames == {Categories[i] : i \in 1..Len(Categories)}
StepsLabel == <<"S", "t", "e", "p", "s">>
AsleepLabel ==
    <<"T", "o", "t", "a", "l", " ", "M", "i", "n", "u", "t", "e", "s", " ",
      "A", "s", "l", "e", "e", "p">>

\* C14: the properties post_to_notion sends hold the Date property with the
\* date, for every metric of every present category one number property
\* with the metric's value under the metric's title-cased label, nothing
\* else, and so no property of a category that is None (nor of an empty
\* dict); activity = {steps: 5000} with sleep = None gives 'Steps' = 5000
\* and none of the sleep labels, and a sleep metric total_minutes_asleep is
\* sent as 'Total Minutes Asleep'.
C14_PropertiesFollowPresence ==
    (pc = "done" /\ post.requests # <<>>) =>
        LET props == post.body.properties
            metrics == UNION {PostedMetrics(c) : c \in CategoryNames}
        IN /\ post.requests = <<post.body>>
           /\ DateLabel \in DOMAIN props
           /\ props[DateLabel] = DateProperty(post.health_data.date)
           /\ Cardinality(DOMAIN props) = 1 + Cardinality(metrics)
           /\ \A k \in metrics :
                 /\ Label(k) \in DOMAIN props
                 /\ props[Label(k)] = NumberProperty(post.values[k])
           /\ \A l \in DOMAIN props \ {DateLabel} : \E k \in metrics : Label(k) = l
           /\ \A c \in CategoryNames :
                 ~post.health_data[c].present =>
                    \A k \in CategoryKeys(c) : Label(k) \notin DOMAIN props
           /\ "steps" \in metrics =>
                 /\ StepsLabel \in DOMAIN props
                 /\ props[StepsLabel] = NumberProperty(post.values["steps"])
           /\ AsleepLabel \in DOMAIN props <=> "total_minutes_asleep" \in metrics

C14_Witness ==
    /\ pc = "done"
    /\ post.health_data.activity = [present |-> TRUE, keys |-> {"steps"}]
    /\ ~post.health_data.sleep.present
    /\ post.health_data.weight.keys = DictKeys("weight")
    /\ post.body.properties[StepsLabel] = NumberProperty(5000)
    /\ AsleepLabel \notin DOMAIN post.body.properties
    /\ Cardinality(DOMAIN post.body.properties) = 5
    /\ post.status = 200

(* ------------------------ claims on termination ------------------------ *)
\* Steps a refresh_fitbit_token call can still take: one per attempt left
\* and the raise after the loop.
RefreshSteps == refresh.retry_count - refresh.attempt + 1
MaxRefreshSteps == DefaultRetryCount + 1
\* Steps of one category: the GET, the refresh, the retried GET and the
\* return into get_comprehensive_health_data.
FetchSteps == 1 + MaxRefreshSteps + 1 + 1
\* Steps left after the category in progress has returned: the categories
\* after it and the heart-rate entry.
StepsAfter(category) ==
    (Len(Categories) - CategoryIndex(category)) * FetchSteps + 1

\* An upper bound on the steps the current run of main can still take.
Rank ==
    CASE pc = "done" -> 0
      [] pc = "heart_rate" -> 1
      [] pc = "category_return" -> 1 + StepsAfter(fetch.category)
      [] pc = "fetch_refreshed" -> 2 + StepsAfter(fetch.category)
      [] pc = "refresh" /\ refresh.ret = "fetch_refreshed" ->
            RefreshSteps + 2 + StepsAfter(fetch.category)
      [] pc = "fetch_get" -> FetchSteps + StepsAfter(fetch.category)
      [] pc = "loop" -> 2 + Len(Categories) * FetchSteps
      [] pc = "query" -> 3 + Len(Categories) * FetchSteps
      [] pc = "init_refreshed" -> 4 + Len(Categories) * FetchSteps
      [] pc = "refresh" /\ refresh.ret = "init_refreshed" ->
            RefreshSteps + 4 + Len(Categories) * FetchSteps
      [] pc = "construct" ->
            1 + MaxRefreshSteps + 4 + Len(Categories) * FetchSteps

\* C15: every run of main ends.  A token refresh makes at most retry_count
\* (3) POSTs, a metrics fetch at most two GETs and one refresh, and a run no
\* create-row request beyond one per date; a run that has not ended can
\* always take a step, and every step of a run lowers a bound on the steps
\* it has left (so the existence query, too, is made at most once).
C15_RunTerminatesWithinBounds ==
    /\ [](/\ refresh.retry_count \in {0, DefaultRetryCount}
          /\ Posts <= refresh.retry_count
          /\ Gets <= 2
          /\ fetch.refreshes <= 1
          /\ Len(post.requests) <= Len(main.dates_to_process)
          /\ Len(main.dates_to_process) <= WindowDays
          /\ Rank >= 0
          /\ pc = "done" \/ ENABLED Next)
    /\ [][pc # "done" => Rank' < Rank]_vars

C15_Witness ==
    /\ pc = "done"
    /\ main.run = MaxRuns
    /\ main.query.kind \in QueryFailures
    /\ main.caught.type = "AttributeError"
    /\ main.health_data.date = WindowDays
    /\ main.health_data.weight.present

(* ----------------------- claims on overlapping runs -------------------- *)
\* Process p ended after its query reported date d unrecorded and it had
\* collected the data of all categories for d.
DecidedAndCollected(p, d) ==
    LET m == overlap[p].main IN
    /\ overlap[p].pc = "done"
    /\ m.query.kind = "ok"
    /\ \A j \in 1..Len(m.query.results) : m.query.results[j] # d
    /\ m.health_data.date = d
    /\ m.health_data.activity.present
    /\ m.health_data.sleep.present
    /\ m.health_data.weight.present

\* C16: two overlapping runs whose existence queries both report a date as
\* unrecorded both issue a create-row request for it, so that the
\* destination holds two rows for the date when both have ended.
C16_OverlappingRunsDuplicateRow ==
    \A d \in Dates :
        (\A p \in Procs : DecidedAndCollected(p, d)) => dest[d] >= 2

(* --------------------- claims on token rotation ------------------------ *)
Held == self.fitbit_refresh_token
Entry == environ.FITBIT_REFRESH_TOKEN
\* The step is a POST of the refresh in progress.
IsPost == pc = "refresh" /\ Len(refresh'.log) = Len(refresh.log) + 1

\* C17: a POST answered 200 with a refresh token replaces the held token
\* and the FITBIT_REFRESH_TOKEN entry by it in the step that returns the
\* access token; any other POST, and every step that is no POST of a
\* refresh, leaves both as they are once the tracker holds a token.  Every
\* refresh call sends the token held when it was entered, which stays the
\* held one while the call runs, and the held token equals the environment
\* entry in every state in which the tracker holds one.
C17_RotationKeepsTokenAndEnvironInStep ==
    /\ [](/\ Held # Unset => Held = Entry
          /\ pc = "refresh" => refresh.sent = Held)
    /\ [][/\ IsPost =>
                LET new == refresh'.answer.refresh_token IN
                IF refresh'.answer.status = 200 /\ new # None
                   THEN /\ Held' = new
                        /\ Entry' = new
                        /\ refresh'.outcome = Returned(refresh'.answer.access_token)
                        /\ pc' = refresh.ret
                   ELSE Held' = Held /\ Entry' = Entry
          /\ (~IsPost /\ Held # Unset /\ pc # "done") =>
                Held' = Held /\ Entry' = Entry
          /\ (pc # "refresh" /\ pc' = "refresh") => refresh'.sent = Held']_vars

C17_Witness ==
    /\ main.active
    /\ pc = "refresh"
    /\ refresh.ret = "fetch_refreshed"
    /\ startup.FITBIT_REFRESH_TOKEN = "rt0"
    /\ refresh.sent = "rt1"
    /\ Held = "rt1"
    /\ Entry = "rt1"
    /\ Len(refresh.log) = 1

HeartRateFailure == AttributeError("get_heart_rate_data")
\* A category read of the run is in progress.
Fetching ==
    main.active /\ pc \in {"fetch_get", "fetch_refreshed", "category_return"}
\* What holds of every run whatever ends its date: no create-row request
\* is issued, the destination stays as it is, only the first unrecorded
\* date is ever fetched, and its categories are read in the order
\* activity, sleep, weight, the heart-rate entry coming after weight.
OneDateNoWrite ==
    /\ [](/\ post.requests = <<>>
          /\ main.health_data.date # 0 =>
                /\ main.idx = 1
                /\ main.health_data.date = main.dates_to_process[1]
          /\ Fetching => fetch.date = main.dates_to_process[1])
    /\ [][/\ dest' = dest
          /\ (pc = "loop" /\ pc' = "fetch_get") => fetch'.category = "activity"
          /\ (pc = "category_return" /\ pc' = "fetch_get") =>
                /\ <<fetch.category, fetch'.category>> \in
                      {<<"activity", "sleep">>, <<"sleep", "weight">>}
                /\ fetch'.date = fetch.date
          /\ pc' = "heart_rate" =>
                pc = "category_return" /\ fetch.category = "weight"
          /\ pc = "heart_rate" =>
                pc' = "done" /\ main'.caught = HeartRateFailure]_vars

\* C19 as stated: no run issues a create-row request or changes the
\* destination, a run fetches at most the first unrecorded date, in the
\* order activity, sleep, weight, and the run that fetches a date ends by
\* failing at the heart-rate entry.
C19_EveryFetchedDateFailsAtHeartRate ==
    /\ OneDateNoWrite
    /\ []((pc = "done" /\ main.active /\ main.health_data.date # 0) =>
             main.caught = HeartRateFailure)

\* C19, amended: as stated, except that the run that fetches a date ends
\* either by failing at the heart-rate entry, after the three reads have
\* returned, or earlier, when one of the three reads raises the permanent
\* error of a token refresh.
C19_FetchedDateEndsWithoutWrite ==
    /\ OneDateNoWrite
    /\ []((pc = "done" /\ main.active /\ main.health_data.date # 0) =>
             \/ main.caught = HeartRateFailure /\ fetch = IdleFetch
             \/ /\ \E t \in PermanentErrorTypes : main.caught = PermanentError(t)
                /\ fetch.outcome = Raised(main.caught)
                /\ fetch.date = main.health_data.date)

C19_Witness ==
    /\ pc = "done"
    /\ main.active
    /\ main.query.kind = "ok"
    /\ main.caught = HeartRateFailure
    /\ main.health_data.date = main.dates_to_process[1]
    /\ main.health_data.activity.present
    /\ main.health_data.sleep.present
    /\ main.health_data.weight.present
    /\ dest[main.health_data.date] = 0
    /\ \E d \in Dates : dest[d] = 1

(* --------------- claims on a refresh that fails in a fetch ------------- *)
\* The metrics read has ended after one GET, answered 401, whose refresh
\* raised.
RefreshFailedInFetch ==
    /\ main.active
    /\ pc \in {"category_return", "done"}
    /\ FetchEnded
    /\ Gets = 1
    /\ fetch.gets[1].status = 401

\* C20: when the refresh started by a 401 ends on invalid_grant or
\* invalid_client, _make_fitbit_request raises that ValueError instead of
\* returning None, without a second GET and with the access token it held
\* before; the error passes through the fetcher to main, which ends the run
\* there: the date's data and the destination stay as they are and no
\* further date is processed.  When the refresh instead fails on its last
\* attempt with an HTTP or network error, the read returns None, again
\* after one GET and with the access token unchanged.
C20_PermanentRefreshFailureStopsTheRun ==
    /\ [](RefreshFailedInFetch =>
            LET last == refresh.log[Posts] IN
            /\ fetch.refreshes = 1
            /\ self.fitbit_access_token = fetch.gets[1].token
            /\ IF last \in PermanentErrorTypes
                  THEN /\ fetch.outcome.kind = "raised"
                       /\ fetch.outcome.exc.type = "ValueError"
                       /\ fetch.outcome.exc = refresh.outcome.exc
                       /\ pc = "done" =>
                             /\ main.caught = fetch.outcome.exc
                             /\ main.idx = 1
                             /\ ~main.health_data[fetch.category].present
                  ELSE /\ last \in TransientClasses
                       /\ Posts = DefaultRetryCount
                       /\ fetch.outcome = Returned(None)
                       /\ pc = "category_return")
    /\ [][(pc = "category_return" /\ main.active
           /\ fetch.outcome.kind = "raised") =>
             /\ pc' = "done"
             /\ main'.caught = fetch.outcome.exc
             /\ main'.health_data = main.health_data
             /\ self' = self
             /\ dest' = dest]_vars

C20_Witness ==
    /\ RefreshFailedInFetch
    /\ pc = "done"
    /\ fetch.category = "sleep"
    /\ refresh.log = <<"http_error", "invalid_client">>
    /\ main.caught = ValueError("Invalid client credentials")
    /\ main.health_data.activity.present
    /\ ~main.health_data.weight.present
====
